---- MODULE Spec2Model ----
(***************************************************************************)
(* Contact-form submission pipeline of promo-frontend: the in-memory rate  *)
(* limiter (src/lib/rate-limiter.ts), the reCAPTCHA client                 *)
(* (src/lib/recaptcha.ts) and the POST handler of the contact endpoint.    *)
(*                                                                         *)
(* Strings are sequences of one-character strings, so that trim,           *)
(* toLowerCase, length and the regular expression are computed and not     *)
(* assumed.  A JavaScript value is a record tagged by its type.            *)
(***************************************************************************)
EXTENDS Integers, Sequences, FiniteSets, TLC

VARIABLES
    now,             \* Date.now(), milliseconds
    ticks,           \* number of clock advances so far (bounds the run)
    rateLimitStore,  \* the Map of rate-limiter.ts: key -> RateLimitEntry
    window,          \* history: per key, the checks seen in its current window
    unswept,         \* history: the store as the same checks leave it with no sweep
    allowedAt,       \* history: per key, the times of its allowed checks
    checkLog,        \* history: the rate-limit checks made by the last step
    env,             \* import.meta.env / process.env, read once at start-up
    req              \* the requests in flight, one record per handler run

vars == <<now, ticks, rateLimitStore, window, unswept, allowedAt, checkLog, env, req>>

(***************************************************************************)
(* Bounds of the model.                                                    *)
(***************************************************************************)
MaxTicks == 2
MaxChecks == 6
MaxInFlight == 2
MaxLen == 3
MaxShortLen == 5

(***************************************************************************)
(* JavaScript values and strings.                                          *)
(***************************************************************************)
Undefined == [t |-> "undefined"]
Num(n) == [t |-> "number", n |-> n]
Str(s) == [t |-> "string", s |-> s]
Bool(b) == [t |-> "boolean", b |-> b]

IsStr(v) == v.t = "string"

\* JavaScript truthiness of a JSON value.
Truthy(v) ==
    CASE v.t = "undefined" -> FALSE
      [] v.t = "string" -> Len(v.s) > 0
      [] v.t = "number" -> v.n # 0
      [] v.t = "boolean" -> v.b
      [] OTHER -> TRUE

Rep(c, n) == [i \in 1..n |-> c]

IsSpace(c) == c = " "

RECURSIVE TrimStart(_)
TrimStart(s) ==
    IF s = <<>> THEN <<>>
    ELSE IF IsSpace(Head(s)) THEN TrimStart(Tail(s)) ELSE s

RECURSIVE TrimEnd(_)
TrimEnd(s) ==
    IF s = <<>> THEN <<>>
    ELSE IF IsSpace(s[Len(s)]) THEN TrimEnd(SubSeq(s, 1, Len(s) - 1)) ELSE s

\* String.prototype.trim
Trim(s) == TrimEnd(TrimStart(s))

LowerChar(c) ==
    CASE c = "A" -> "a"
      [] c = "B" -> "b"
      [] c = "C" -> "c"
      [] c = "I" -> "i"
      [] c = "P" -> "p"
      [] OTHER -> c

\* String.prototype.toLowerCase
ToLowerCase(s) == [i \in 1..Len(s) |-> LowerChar(s[i])]

Digit(d) == CASE d = 0 -> "0" [] d = 1 -> "1" [] d = 2 -> "2" [] d = 3 -> "3"
              [] d = 4 -> "4" [] d = 5 -> "5" [] d = 6 -> "6" [] d = 7 -> "7"
              [] d = 8 -> "8" [] d = 9 -> "9"

RECURSIVE NatToString(_)
NatToString(n) ==
    IF n < 10 THEN <<Digit(n)>> ELSE NatToString(n \div 10) \o <<Digit(n % 10)>>

\* Number.prototype.toString of an integer
NumberToString(n) == IF n < 0 THEN <<"-">> \o NatToString(0 - n) ELSE NatToString(n)

DigitValue(c) == CHOOSE d \in 0..9 : Digit(d) = c

RECURSIVE DigitsToNat(_)
DigitsToNat(s) ==
    IF s = <<>> THEN 0
    ELSE 10 * DigitsToNat(SubSeq(s, 1, Len(s) - 1)) + DigitValue(s[Len(s)])

\* the number of seconds a Retry-After header value denotes
HeaderSeconds(s) ==
    IF s # <<>> /\ Head(s) = "-" THEN 0 - DigitsToNat(Tail(s)) ELSE DigitsToNat(s)

(***************************************************************************)
(* rate-limiter.ts                                                         *)
(***************************************************************************)
WINDOW_MS == 60 * 60 * 1000
MAX_REQUESTS_PER_IP == 5
MAX_REQUESTS_PER_EMAIL == 3

Entry(c, t) == [count |-> c, firstRequestAt |-> t]

\* Map.prototype.get of a key the store does not hold
NoEntry == [count |-> 0, firstRequestAt |-> -1]

\* Map.prototype.set and Map.prototype.delete on a store
MapSet(st, key, entry) ==
    [k \in DOMAIN st \cup {key} |-> IF k = key THEN entry ELSE st[k]]

MapDelete(st, keys) == [k \in DOMAIN st \ keys |-> st[k]]

\* an entry is swept when its window has fully expired
\* mutant: the sweep takes an entry at the last instant of its window
SweepExpired_AtBoundary(entry, t) == t - entry.firstRequestAt >= WINDOW_MS

SweepExpired(entry, t) == t - entry.firstRequestAt > WINDOW_MS

cleanupExpiredEntries(st, t) ==
    MapDelete(st, {k \in DOMAIN st : SweepExpired(st[k], t)})

\* the window of an entry has expired at time t
WindowExpired(entry, t) == t - entry.firstRequestAt > WINDOW_MS

\* mutant: the comparison lets one request too many through
LimitReached_OffByOne(entry, maxRequests) == entry.count > maxRequests

\* the count of an active window has reached the maximum
LimitReached(entry, maxRequests) == entry.count >= maxRequests

RateLimitKey(identifier) == Trim(ToLowerCase(identifier))

\* mutant: the reset restarts the window but keeps the old count
FreshEntry_CarryOver(entry, t) == Entry(entry.count + 1, t)

\* the entry a first request, or the first request after expiry, leaves
\* mutant: the check that opens a window is not counted
FreshEntry_Uncounted(entry, t) == Entry(0, t)

FreshEntry(entry, t) == Entry(1, t)

\* mutant: the write of the incremented count is lost
Incremented_Lost(entry) == entry

\* mutant: an allowed check is counted twice
Incremented_Twice(entry) == Entry(entry.count + 2, entry.firstRequestAt)

\* entry.count++
Incremented(entry) == Entry(entry.count + 1, entry.firstRequestAt)

\* checkRateLimit: the result and the store after the call
checkRateLimit(st, t, identifier, maxRequests) ==
    LET key == RateLimitKey(identifier) IN
    IF key \notin DOMAIN st
    THEN [allowed |-> TRUE, remaining |-> maxRequests - 1, resetAt |-> t + WINDOW_MS,
          store |-> MapSet(st, key, FreshEntry(NoEntry, t))]
    ELSE LET entry == st[key] IN
         IF WindowExpired(entry, t)
         THEN [allowed |-> TRUE, remaining |-> maxRequests - 1,
               resetAt |-> t + WINDOW_MS, store |-> MapSet(st, key, FreshEntry(entry, t))]
         ELSE IF LimitReached(entry, maxRequests)
         THEN [allowed |-> FALSE, remaining |-> 0,
               resetAt |-> entry.firstRequestAt + WINDOW_MS, store |-> st]
         ELSE [allowed |-> TRUE, remaining |-> maxRequests - (entry.count + 1),
               resetAt |-> entry.firstRequestAt + WINDOW_MS,
               store |-> MapSet(st, key, Incremented(entry))]

IpIdentifier(ip) == <<"i", "p", ":">> \o ip

\* mutant: the email policy keeps its entries under the prefix of the IP policy
EmailIdentifier_IpPrefix(email) == <<"i", "p", ":">> \o email

EmailIdentifier(email) == <<"e", "m", "a", "i", "l", ":">> \o email

checkIpRateLimit(st, t, ip) == checkRateLimit(st, t, IpIdentifier(ip), MAX_REQUESTS_PER_IP)

checkEmailRateLimit(st, t, email) ==
    checkRateLimit(st, t, EmailIdentifier(email), MAX_REQUESTS_PER_EMAIL)

\* Math.ceil(d / 1000) for an integer d
CeilDiv1000(d) == 0 - ((0 - d) \div 1000)

getResetTimeSeconds(resetAt, t) == CeilDiv1000(resetAt - t)

(***************************************************************************)
(* History of the checks: for each key the window that is open according   *)
(* to the clock alone (opened by the first check that found none open),    *)
(* and the number of checks made in it.  Kept apart from the store.        *)
(***************************************************************************)
WindowOpen(w, key, t) == key \in DOMAIN w /\ ~(t - w[key].start > WINDOW_MS)

WindowAfter(w, key, t) ==
    IF WindowOpen(w, key, t)
    THEN MapSet(w, key, [n |-> w[key].n + 1, start |-> w[key].start])
    ELSE MapSet(w, key, [n |-> 1, start |-> t])

ChecksSoFar(w, key, t) == IF WindowOpen(w, key, t) THEN w[key].n ELSE 0

\* the times of the allowed checks of each key, after one more check
Noted(a, key, t, res) ==
    IF ~res.allowed THEN a
    ELSE [k \in DOMAIN a \cup {key} |->
             IF k = key THEN (IF key \in DOMAIN a THEN Append(a[key], t) ELSE <<t>>)
             ELSE a[k]]

\* one line of the log: what a check saw, what it answered, what it left
LogLine(st, w, t, identifier, maxRequests, res) ==
    LET key == RateLimitKey(identifier) IN
    [identifier |-> identifier, key |-> key, max |-> maxRequests, at |-> t,
     before |-> IF key \in DOMAIN st THEN st[key] ELSE NoEntry,
     after |-> IF key \in DOMAIN res.store THEN res.store[key] ELSE NoEntry,
     others |-> MapDelete(st, {key}) = MapDelete(res.store, {key}),
     elapsed |-> key \in DOMAIN w /\ ~WindowOpen(w, key, t),
     nth |-> WindowAfter(w, key, t)[key].n,
     windowStart |-> WindowAfter(w, key, t)[key].start,
     allowed |-> res.allowed, remaining |-> res.remaining, resetAt |-> res.resetAt]

(***************************************************************************)
(* The clock and the periodic sweep (setInterval, every 15 minutes).       *)
(***************************************************************************)
TickSteps == {1, 3600000}

Tick ==
    /\ ticks < MaxTicks
    /\ \E d \in TickSteps : now' = now + d
    /\ ticks' = ticks + 1
    /\ checkLog' = <<>>
    /\ UNCHANGED <<rateLimitStore, window, unswept, allowedAt, env, req>>

Sweep ==
    /\ rateLimitStore' = cleanupExpiredEntries(rateLimitStore, now)
    /\ checkLog' = <<>>
    /\ UNCHANGED <<now, ticks, window, unswept, allowedAt, env, req>>

(***************************************************************************)
(* The limiter on its own: the two exported checks called directly.        *)
(***************************************************************************)
Identifiers == {<<"a">>, <<"A">>}

\* one call of checkIpRateLimit(ip)
CheckIpOf(ip) ==
    LET id == IpIdentifier(ip)
        res == checkIpRateLimit(rateLimitStore, now, ip) IN
    /\ ChecksSoFar(window, RateLimitKey(id), now) < MaxChecks
    /\ rateLimitStore' = res.store
    /\ window' = WindowAfter(window, RateLimitKey(id), now)
    /\ unswept' = checkIpRateLimit(unswept, now, ip).store
    /\ allowedAt' = Noted(allowedAt, RateLimitKey(id), now, res)
    /\ checkLog' = <<LogLine(rateLimitStore, window, now, id, MAX_REQUESTS_PER_IP, res)>>
    /\ UNCHANGED <<now, ticks, env, req>>

CallCheckIp == \E ip \in Identifiers : CheckIpOf(ip)

\* one call of checkEmailRateLimit(email)
CheckEmailOf(email) ==
    LET id == EmailIdentifier(email)
        res == checkEmailRateLimit(rateLimitStore, now, email) IN
    /\ ChecksSoFar(window, RateLimitKey(id), now) < MaxChecks
    /\ rateLimitStore' = res.store
    /\ window' = WindowAfter(window, RateLimitKey(id), now)
    /\ unswept' = checkEmailRateLimit(unswept, now, email).store
    /\ allowedAt' = Noted(allowedAt, RateLimitKey(id), now, res)
    /\ checkLog' = <<LogLine(rateLimitStore, window, now, id, MAX_REQUESTS_PER_EMAIL, res)>>
    /\ UNCHANGED <<now, ticks, env, req>>

CallCheckEmail == \E email \in Identifiers : CheckEmailOf(email)

\* spellings of one identifier: letter case, leading and trailing whitespace
Spellings == {<<"a">>, <<"A">>, <<" ", "a">>, <<"a", " ">>}

CallCheckIpSpelled == \E ip \in Spellings : CheckIpOf(ip)

CallCheckEmailSpelled == \E email \in Spellings : CheckEmailOf(email)

EmptyMap == [k \in {} |-> NoEntry]

(***************************************************************************)
(* recaptcha.ts                                                            *)
(***************************************************************************)
Arr(a) == [t |-> "array", a |-> a]

\* what the verification service does with one call: the fetch rejects, the
\* body is not JSON, the body is the JSON null, or it is a JSON object
VerifyOutcomes ==
    {[kind |-> "network_error"], [kind |-> "not_json"], [kind |-> "null"]}
    \cup {[kind |-> "json", success |-> s, errorCodes |-> e] :
            s \in {Bool(TRUE), Bool(FALSE), Str(<<"t">>)},
            e \in {Undefined, Arr(<<>>), Arr(<<"timeout-or-duplicate">>)}}

VerificationError == [success |-> Bool(FALSE), errorCodes |-> Arr(<<"verification_error">>)]

\* verifyRecaptcha: the value its promise resolves to (it never rejects)
verifyRecaptcha(outcome) ==
    IF outcome.kind = "json"
    THEN [success |-> outcome.success, errorCodes |-> outcome.errorCodes]
    ELSE VerificationError

\* mutant: the error codes are not looked at
isRecaptchaValid_SuccessOnly(result) == result.success = Bool(TRUE)

isRecaptchaValid(result) ==
    /\ result.success = Bool(TRUE)
    /\ (~Truthy(result.errorCodes) \/ Len(result.errorCodes.a) = 0)

(***************************************************************************)
(* The contact endpoint: configuration read at start-up.                   *)
(***************************************************************************)
Placeholder ==
    Str(<<"y","o","u","r","_","s","e","c","r","e","t","_","k","e","y","_","h","e","r","e">>)

Development == Str(<<"d","e","v","e","l","o","p","m","e","n","t">>)
NodeProduction == Str(<<"p","r","o","d","u","c","t","i","o","n">>)

Envs ==
    [STRAPI_API_TOKEN : {Undefined, Str(<<>>), Str(<<"k">>)},
     RECAPTCHA_SECRET_KEY : {Undefined, Str(<<>>), Placeholder, Str(<<"s">>)},
     DEV : {Bool(TRUE), Bool(FALSE)},
     NODE_ENV : {Development, NodeProduction}]

IS_DEV(e) == Truthy(e.DEV) \/ e.NODE_ENV = Development

\* mutant: development mode never enforces the CAPTCHA
REQUIRE_CAPTCHA_ProductionOnly(e) == ~IS_DEV(e)

REQUIRE_CAPTCHA(e) ==
    ~IS_DEV(e) \/ (Truthy(e.RECAPTCHA_SECRET_KEY) /\ e.RECAPTCHA_SECRET_KEY # Placeholder)

\* mutant: only an unset token counts as missing, an empty one does not
ConfigMissing_UnsetOnly(e) == e.STRAPI_API_TOKEN.t = "undefined"

ConfigMissing(e) == ~Truthy(e.STRAPI_API_TOKEN)

(***************************************************************************)
(* The contact endpoint: requests and responses.                           *)
(***************************************************************************)
Unread == [t |-> "unread"]

UnreadBody ==
    [website_url |-> Unread, website |-> Unread, recaptchaToken |-> Unread,
     email |-> Unread, name |-> Unread, subject |-> Unread, message |-> Unread]

NoResult == [success |-> Undefined, errorCodes |-> Undefined]
NoLimit == [allowed |-> Undefined]
NoData == [t |-> "undefined"]
NoResponse == [status |-> 0]

IdleRequest ==
    [pc |-> "idle", ip |-> <<>>, parsed |-> FALSE, body |-> UnreadBody,
     evaluated |-> <<>>, verifyCalls |-> 0, fetchCalls |-> 0,
     recaptchaResult |-> NoResult, ipRateLimit |-> NoLimit, emailRateLimit |-> NoLimit,
     email |-> Undefined, sanitizedData |-> NoData, threw |-> FALSE, resp |-> NoResponse,
     verifyOutcome |-> "none", upstreamOutcome |-> "none", upstreamStatus |-> 0,
     upstreamJson |-> FALSE]

\* the handler runs that may be in flight at once
Requests == 1..MaxInFlight

\* one submission at a time
OneAtATime == {1}

ErrorResponse(status, message) ==
    [status |-> status, error |-> message, retryAfter |-> Undefined,
     RetryAfter |-> Undefined, details |-> Undefined, success |-> FALSE]

RateLimitResponse(message, resetSeconds) ==
    [status |-> 429, error |-> message, retryAfter |-> Num(resetSeconds),
     RetryAfter |-> Str(NumberToString(resetSeconds)), details |-> Undefined,
     success |-> FALSE]

UpstreamErrorResponse(errorData) ==
    [status |-> 500, error |-> "Failed to submit message", retryAfter |-> Undefined,
     RetryAfter |-> Undefined, details |-> errorData, success |-> FALSE]

SuccessResponse ==
    [status |-> 200, error |-> "", retryAfter |-> Undefined,
     RetryAfter |-> Undefined, details |-> Undefined, success |-> TRUE]

InternalError == ErrorResponse(500, "Internal server error")

\* the request after `return new Response(...)`
Respond(q, resp) == [q EXCEPT !.pc = "done", !.resp = resp]

\* mutant: an exception ends the handler with no response
Throw_NoResponse(q) == [q EXCEPT !.pc = "done", !.threw = TRUE]

\* the request after an exception reached the catch block of POST
Throw(q) == [q EXCEPT !.pc = "done", !.threw = TRUE, !.resp = InternalError]

Evaluate(q, stage) == [q EXCEPT !.evaluated = Append(@, stage)]

\* the store left by making the checks of a log, from line i on, on store u
RECURSIVE Replayed(_, _, _)
Replayed(u, lg, i) ==
    IF i > Len(lg) THEN u
    ELSE Replayed(checkRateLimit(u, lg[i].at, lg[i].identifier, lg[i].max).store, lg, i + 1)

\* the times of the allowed checks after the checks of a log, from line i on
RECURSIVE NotedAll(_, _, _)
NotedAll(a, lg, i) ==
    IF i > Len(lg) THEN a
    ELSE NotedAll(Noted(a, lg[i].key, lg[i].at, lg[i]), lg, i + 1)

\* one step of request r: its record, the store and the history after it
Finish(r, q, st, w, lg) ==
    /\ req' = [req EXCEPT ![r] = q]
    /\ rateLimitStore' = st
    /\ window' = w
    /\ unswept' = Replayed(unswept, lg, 1)
    /\ allowedAt' = NotedAll(allowedAt, lg, 1)
    /\ checkLog' = lg
    /\ UNCHANGED <<now, ticks, env>>

(***************************************************************************)
(* The contact endpoint: validation and sanitisation (layer 5).            *)
(***************************************************************************)
\* String.prototype.replace(/c/g, rep)
RECURSIVE ReplaceAll(_, _, _)
ReplaceAll(s, c, rep) ==
    IF Len(s) = 0 THEN <<>>
    ELSE IF Len(s) = 1 THEN (IF s[1] = c THEN rep ELSE s)
    ELSE LET h == Len(s) \div 2 IN
         ReplaceAll(SubSeq(s, 1, h), c, rep) \o ReplaceAll(SubSeq(s, h + 1, Len(s)), c, rep)

\* mutant: the apostrophe is left as it is
sanitizeInput_ApostropheKept(input) ==
    LET a == ReplaceAll(input, "&", <<"&", "a", "m", "p", ";">>)
        b == ReplaceAll(a, "<", <<"&", "l", "t", ";">>)
        c == ReplaceAll(b, ">", <<"&", "g", "t", ";">>)
    IN  ReplaceAll(c, "\"", <<"&", "q", "u", "o", "t", ";">>)

\* mutant: the ampersand is left as it is
sanitizeInput_AmpersandKept(input) ==
    LET b == ReplaceAll(input, "<", <<"&", "l", "t", ";">>)
        c == ReplaceAll(b, ">", <<"&", "g", "t", ";">>)
        d == ReplaceAll(c, "\"", <<"&", "q", "u", "o", "t", ";">>)
    IN  ReplaceAll(d, "'", <<"&", "#", "0", "3", "9", ";">>)

sanitizeInput(input) ==
    LET a == ReplaceAll(input, "&", <<"&", "a", "m", "p", ";">>)
        b == ReplaceAll(a, "<", <<"&", "l", "t", ";">>)
        c == ReplaceAll(b, ">", <<"&", "g", "t", ";">>)
        d == ReplaceAll(c, "\"", <<"&", "q", "u", "o", "t", ";">>)
    IN  ReplaceAll(d, "'", <<"&", "#", "0", "3", "9", ";">>)

\* a character the class [^\s@] accepts
EmailChar(c) == ~IsSpace(c) /\ c # "@"

\* /^[^\s@]+@[^\s@]+\.[^\s@]+$/.test(s)
emailRegex(s) ==
    \E i \in 2..Len(s), j \in 4..Len(s) - 1 :
        /\ i + 1 < j
        /\ s[i] = "@"
        /\ s[j] = "."
        /\ \A k \in 1..Len(s) : k # i => EmailChar(s[k])

\* v.length > n and v.length < n, false when v has no length
LengthAbove(v, n) == IsStr(v) /\ Len(v.s) > n
LengthBelow(v, n) == IsStr(v) /\ Len(v.s) < n

NameTooLong(name) == LengthAbove(name, 100)
SubjectTooLong(subject) == LengthAbove(subject, 200)
\* mutant: the lower bound of the message length is not checked
MessageOutOfRange_NoMinimum(message) == LengthAbove(message, 2000)

MessageOutOfRange(message) == LengthAbove(message, 2000) \/ LengthBelow(message, 10)

\* mutant: the message length is checked before the name length
ValidationFailure_MessageFirst(name, subject, message, email) ==
    IF ~Truthy(name) \/ ~Truthy(subject) \/ ~Truthy(message) THEN "required"
    ELSE IF MessageOutOfRange(message) THEN "messageLength"
    ELSE IF NameTooLong(name) THEN "nameLength"
    ELSE IF SubjectTooLong(subject) THEN "subjectLength"
    ELSE IF ~emailRegex(email) THEN "emailFormat"
    ELSE "none"

\* the rule of layer 5 that rejects the request, in the order the handler
\* applies them
ValidationFailure(name, subject, message, email) ==
    IF ~Truthy(name) \/ ~Truthy(subject) \/ ~Truthy(message) THEN "required"
    ELSE IF NameTooLong(name) THEN "nameLength"
    ELSE IF SubjectTooLong(subject) THEN "subjectLength"
    ELSE IF MessageOutOfRange(message) THEN "messageLength"
    ELSE IF ~emailRegex(email) THEN "emailFormat"
    ELSE "none"

ValidationStages == <<"required", "nameLength", "subjectLength", "messageLength", "emailFormat">>

ValidationMessage(stage) ==
    CASE stage = "required" -> "All fields are required"
      [] stage = "nameLength" -> "Name is too long (max 100 characters)"
      [] stage = "subjectLength" -> "Subject is too long (max 200 characters)"
      [] stage = "messageLength" -> "Message must be between 10 and 2000 characters"
      [] stage = "emailFormat" -> "Invalid email format"

IndexOf(seq, x) == CHOOSE i \in 1..Len(seq) : seq[i] = x

\* the rules evaluated up to and including the one that rejects (all of them
\* when none does)
ValidationEvaluated(failure) ==
    IF failure = "none" THEN ValidationStages
    ELSE SubSeq(ValidationStages, 1, IndexOf(ValidationStages, failure))

\* sanitizedData; a field that is no string has no trim method
CanSanitize(name, subject, message) == IsStr(name) /\ IsStr(subject) /\ IsStr(message)

SanitizedData(name, subject, message, email) ==
    [t |-> "object",
     name |-> sanitizeInput(Trim(name.s)),
     email |-> Trim(email),
     subject |-> sanitizeInput(Trim(subject.s)),
     message |-> sanitizeInput(Trim(message.s)),
     msgStatus |-> "pending"]

\* layers 5 and the call of fetch, for a request whose email passed layer 4
ValidateAndForward(r, q, st, w, lg, I) ==
    \E name \in I.names, subject \in I.subjects, message \in I.messages :
        LET q1 == [q EXCEPT !.body.name = name, !.body.subject = subject,
                            !.body.message = message]
            failure == ValidationFailure(name, subject, message, q.email.s)
            q2 == [q1 EXCEPT !.evaluated = @ \o ValidationEvaluated(failure)]
        IN  IF failure # "none"
            THEN Finish(r, Respond(q2, ErrorResponse(400, ValidationMessage(failure))),
                        st, w, lg)
            ELSE IF ~CanSanitize(name, subject, message)
            THEN Finish(r, Throw(q2), st, w, lg)
            ELSE Finish(r, [q2 EXCEPT
                               !.pc = "fetch",
                               !.fetchCalls = @ + 1,
                               !.sanitizedData =
                                   SanitizedData(name, subject, message, q.email.s)],
                        st, w, lg)

(***************************************************************************)
(* The contact endpoint: rate limiting (layers 3 and 4).                   *)
(***************************************************************************)
\* body.email?.toLowerCase().trim(); a number has no toLowerCase method
\* mutant: a value without toLowerCase is taken for an absent email
CanNormalize_AnyValue(v) == TRUE

CanNormalize(v) == v.t = "undefined" \/ IsStr(v)

NormalizedEmail(v) == IF IsStr(v) THEN Str(Trim(ToLowerCase(v.s))) ELSE Undefined

LimitResult(res) ==
    [allowed |-> Bool(res.allowed), remaining |-> res.remaining, resetAt |-> res.resetAt]

\* layer 4 and what follows it, for a request the IP limit let through
EmailLimitAndAfter(r, q, st, w, lg, I) ==
    \E e \in I.emails :
        LET q1 == [q EXCEPT !.body.email = e] IN
        IF ~CanNormalize(e) THEN Finish(r, Throw(q1), st, w, lg)
        ELSE
        LET email == NormalizedEmail(e)
            q2 == [Evaluate(q1, "emailRequired") EXCEPT !.email = email]
        IN  IF ~Truthy(email)
            THEN Finish(r, Respond(q2, ErrorResponse(400, "Email is required")), st, w, lg)
            ELSE
            LET id == EmailIdentifier(email.s)
                res == checkEmailRateLimit(st, now, email.s)
                w1 == WindowAfter(w, RateLimitKey(id), now)
                lg1 == Append(lg, LogLine(st, w, now, id, MAX_REQUESTS_PER_EMAIL, res))
                q3 == [Evaluate(q2, "emailLimit") EXCEPT !.emailRateLimit = LimitResult(res)]
            IN  /\ ChecksSoFar(w, RateLimitKey(id), now) < MaxChecks
                /\ IF ~res.allowed
                   THEN Finish(r, Respond(q3, RateLimitResponse(
                                   "Too many submissions from this email",
                                   getResetTimeSeconds(res.resetAt, now))),
                               res.store, w1, lg1)
                   ELSE ValidateAndForward(r, q3, res.store, w1, lg1, I)

\* layer 3 and what follows it, for a request that passed layers 1 and 2
RateLimitAndAfter(r, q, I) ==
    LET id == IpIdentifier(q.ip)
        res == checkIpRateLimit(rateLimitStore, now, q.ip)
        w1 == WindowAfter(window, RateLimitKey(id), now)
        lg1 == <<LogLine(rateLimitStore, window, now, id, MAX_REQUESTS_PER_IP, res)>>
        q1 == [Evaluate(q, "ipLimit") EXCEPT !.ipRateLimit = LimitResult(res)]
    IN  /\ ChecksSoFar(window, RateLimitKey(id), now) < MaxChecks
        /\ IF ~res.allowed
           THEN Finish(r, Respond(q1, RateLimitResponse("Too many requests",
                                       getResetTimeSeconds(res.resetAt, now))),
                       res.store, w1, lg1)
           ELSE EmailLimitAndAfter(r, q1, res.store, w1, lg1, I)

(***************************************************************************)
(* The contact endpoint: POST.  One action per stretch of the handler      *)
(* between two awaits.                                                     *)
(***************************************************************************)
RECURSIVE BeforeComma(_)
BeforeComma(s) ==
    IF s = <<>> \/ Head(s) = "," THEN <<>> ELSE <<Head(s)>> \o BeforeComma(Tail(s))

Unknown == <<"u", "n", "k", "n", "o", "w", "n">>

\* clientAddress || x-forwarded-for?.split(",")[0]?.trim() || "unknown"
ClientIp(clientAddress, forwarded) ==
    IF Truthy(clientAddress) THEN clientAddress.s
    ELSE IF IsStr(forwarded) /\ Trim(BeforeComma(forwarded.s)) # <<>>
    THEN Trim(BeforeComma(forwarded.s))
    ELSE Unknown

\* the handler up to `await request.json()`
Start(r, I) ==
    /\ req[r].pc \in {"idle", "done"}
    /\ \E clientAddress \in I.clientAddresses, forwarded \in I.forwardedFor :
        LET q == [Evaluate(IdleRequest, "config") EXCEPT
                     !.ip = ClientIp(clientAddress, forwarded)]
        IN  IF ConfigMissing(env)
            THEN Finish(r, Respond(q, ErrorResponse(500, "Server configuration error")),
                        rateLimitStore, window, <<>>)
            ELSE Finish(r, [q EXCEPT !.pc = "json"], rateLimitStore, window, <<>>)

\* mutant: only the first of the two decoy fields is looked at
HoneypotTripped_FirstFieldOnly(website_url, website) == Truthy(website_url)

HoneypotTripped(website_url, website) == Truthy(website_url) \/ Truthy(website)

\* mutant: a whitespace-only token counts as a token
TokenMissing_NoTrim(token) == ~Truthy(token) \/ ~IsStr(token)

TokenMissing(token) == ~Truthy(token) \/ ~IsStr(token) \/ Trim(token.s) = <<>>

\* from the body to `await verifyRecaptcha(...)`, or to the call of fetch
\* when the CAPTCHA is not required
ParseBody(r, I) ==
    /\ req[r].pc = "json"
    /\ \E kind \in I.bodyKinds :
        IF kind # "object"
        THEN Finish(r, Throw(req[r]), rateLimitStore, window, <<>>)
        ELSE \E website_url \in I.honeypots, website \in I.honeypots :
            LET q == [Evaluate(req[r], "honeypot") EXCEPT
                         !.parsed = TRUE,
                         !.body.website_url = website_url,
                         !.body.website = website]
            IN  IF HoneypotTripped(website_url, website)
                THEN Finish(r, Respond(q, ErrorResponse(400, "Submission rejected")),
                            rateLimitStore, window, <<>>)
                ELSE IF ~REQUIRE_CAPTCHA(env)
                THEN RateLimitAndAfter(r, q, I)
                ELSE \E token \in I.tokens :
                    LET q1 == [Evaluate(q, "captchaToken") EXCEPT
                                  !.body.recaptchaToken = token]
                    IN  IF TokenMissing(token)
                        THEN Finish(r, Respond(q1, ErrorResponse(400,
                                        "reCAPTCHA verification required")),
                                    rateLimitStore, window, <<>>)
                        ELSE Finish(r, [q1 EXCEPT !.pc = "verify", !.verifyCalls = @ + 1],
                                    rateLimitStore, window, <<>>)

\* from the result of verifyRecaptcha to the call of fetch
VerifyReturn(r, I) ==
    /\ req[r].pc = "verify"
    /\ \E outcome \in I.verifyOutcomes :
        LET result == verifyRecaptcha(outcome)
            q == [Evaluate(req[r], "captchaVerify") EXCEPT
                     !.recaptchaResult = result, !.verifyOutcome = outcome.kind]
        IN  IF ~isRecaptchaValid(result)
            THEN Finish(r, Respond(q, ErrorResponse(400, "reCAPTCHA verification failed")),
                        rateLimitStore, window, <<>>)
            ELSE RateLimitAndAfter(r, q, I)

\* what the content store does with one call: the fetch rejects, or it
\* answers with a status and a body that is JSON or not
UpstreamOutcomes ==
    {[kind |-> "network_error"]}
    \cup {[kind |-> "response", status |-> s, json |-> j] :
            s \in {200, 400, 503}, j \in BOOLEAN}

\* mutant: only the server errors of the content store count as failures
ResponseOk_ClientErrorsPass(status) == status < 500

ResponseOk(status) == status >= 200 /\ status <= 299

UpstreamBody(status) == [t |-> "object", status |-> status]
EmptyObject == [t |-> "object"]

\* from the result of fetch to the response
UpstreamReturn(r, I) ==
    /\ req[r].pc = "fetch"
    /\ \E outcome \in I.upstreamOutcomes :
        LET q == [Evaluate(req[r], "upstream") EXCEPT
                     !.upstreamOutcome = outcome.kind,
                     !.upstreamStatus =
                         IF outcome.kind = "response" THEN outcome.status ELSE 0,
                     !.upstreamJson = outcome.kind = "response" /\ outcome.json]
        IN  IF outcome.kind = "network_error"
            THEN Finish(r, Throw(q), rateLimitStore, window, <<>>)
            ELSE IF ~ResponseOk(outcome.status)
            THEN Finish(r, Respond(q, UpstreamErrorResponse(
                            IF outcome.json THEN UpstreamBody(outcome.status)
                            ELSE EmptyObject)),
                        rateLimitStore, window, <<>>)
            ELSE IF ~outcome.json
            THEN Finish(r, Throw(q), rateLimitStore, window, <<>>)
            ELSE Finish(r, Respond(q, SuccessResponse), rateLimitStore, window, <<>>)

(***************************************************************************)
(* What the clients and the two external services may send.                *)
(***************************************************************************)
ValidEmail == Str(<<"A", "@", "b", ".", "c", "o", " ">>)

AllInputs ==
    [clientAddresses |-> {Undefined, Str(<<"a">>)},
     forwardedFor |-> {Str(<<" ", "A", ",", "1">>)},
     bodyKinds |-> {"not_json", "null", "object"},
     honeypots |-> {Undefined, Str(<<"x">>)},
     tokens |-> {Undefined, Num(1), Str(<<>>), Str(<<" ">>), Str(<<"t">>)},
     verifyOutcomes |-> VerifyOutcomes,
     emails |-> {Undefined, Num(5), Str(<<" ">>), ValidEmail, Str(<<"a", "@", "b">>)},
     names |-> {Undefined, Num(7), Str(<<" ">>), Str(Rep("n", 100)), Str(Rep("n", 101))},
     subjects |-> {Str(<<>>), Str(Rep("s", 200)), Str(Rep("s", 201))},
     messages |-> {Str(Rep("m", 9)), Str(<<" ">> \o Rep("<", 9)), Str(Rep("m", 2000)),
                   Str(Rep("m", 2001))},
     upstreamOutcomes |-> UpstreamOutcomes]

\* well-formed submissions only, and services that answer
WellFormed ==
    [clientAddresses |-> {Str(<<"a">>)},
     forwardedFor |-> {Undefined},
     bodyKinds |-> {"object"},
     honeypots |-> {Undefined},
     tokens |-> {Str(<<"t">>)},
     verifyOutcomes |-> {[kind |-> "json", success |-> Bool(TRUE), errorCodes |-> Undefined]},
     emails |-> {ValidEmail},
     names |-> {Str(Rep("n", 100))},
     subjects |-> {Str(Rep("s", 200))},
     messages |-> {Str(Rep("m", 10))},
     upstreamOutcomes |-> {[kind |-> "response", status |-> 200, json |-> TRUE]}]

\* well-formed submissions from two addresses, with a well-formed email or
\* with an email that reads like the first address
TwoAddresses ==
    [WellFormed EXCEPT !.clientAddresses = {Str(<<"a">>), Str(<<"b">>)},
                       !.emails = {Str(<<"a">>), ValidEmail}]

\* the five characters sanitizeInput replaces, the letters of what it
\* replaces them with, and the space
Alphabet ==
    {"&", "<", ">", "\"", "'", "a", "m", "p", ";", "l", "t", "g", "q", "u", "o",
     "#", "0", "3", "9", " "}

ShortAlphabet == {"&", "<", "l", "t", ";"}

StringsUpTo(chars, n) == UNION {[1..k -> chars] : k \in 0..n}

\* submissions whose name is any short string over the alphabet and whose
\* other fields hold the replaced characters as well
Markup ==
    [WellFormed EXCEPT
        !.names = {Str(s) : s \in StringsUpTo(Alphabet, MaxLen)
                                  \cup StringsUpTo(ShortAlphabet, MaxShortLen)},
        !.subjects = {Str(<<" ", "<", "&", ">", "s">>)},
        !.messages = {Str(Rep("\"", 9) \o <<"'">>)},
        !.emails = {Str(<<"A", "'", "&", "@", "b", ".", "c", " ">>)}]

Production == [STRAPI_API_TOKEN |-> Str(<<"k">>), RECAPTCHA_SECRET_KEY |-> Str(<<"s">>),
               DEV |-> Bool(FALSE), NODE_ENV |-> NodeProduction]

LocalDev == [STRAPI_API_TOKEN |-> Str(<<"k">>), RECAPTCHA_SECRET_KEY |-> Undefined,
             DEV |-> Bool(TRUE), NODE_ENV |-> Development]

Unconfigured == [STRAPI_API_TOKEN |-> Undefined, RECAPTCHA_SECRET_KEY |-> Str(<<"s">>),
                 DEV |-> Bool(FALSE), NODE_ENV |-> NodeProduction]

Quiet(e) ==
    /\ now = 0
    /\ ticks = 0
    /\ rateLimitStore = EmptyMap
    /\ window = EmptyMap
    /\ unswept = EmptyMap
    /\ allowedAt = [k \in {} |-> <<>>]
    /\ checkLog = <<>>
    /\ env = e
    /\ req = [r \in Requests |-> IdleRequest]

(***************************************************************************)
(* Spec: submissions of every shape, one at a time, within one hour (the   *)
(* clock stands).                                                          *)
(***************************************************************************)
Init == \E e \in {Production, LocalDev, Unconfigured} : Quiet(e)

Next ==
    \/ \E r \in OneAtATime : Start(r, AllInputs)
    \/ \E r \in OneAtATime : ParseBody(r, AllInputs)
    \/ \E r \in OneAtATime : VerifyReturn(r, AllInputs)
    \/ \E r \in OneAtATime : UpstreamReturn(r, AllInputs)

Spec == Init /\ [][Next]_vars

(***************************************************************************)
(* SpecEnv: every configuration, serving the first submission it gets.     *)
(***************************************************************************)
InitEnv == \E e \in Envs : Quiet(e)

NextEnv ==
    \/ \E r \in OneAtATime : req[r].pc = "idle" /\ Start(r, AllInputs)
    \/ \E r \in OneAtATime : ParseBody(r, AllInputs)
    \/ \E r \in OneAtATime : VerifyReturn(r, AllInputs)
    \/ \E r \in OneAtATime : UpstreamReturn(r, AllInputs)

SpecEnv == InitEnv /\ [][NextEnv]_vars

(***************************************************************************)
(* SpecClock: well-formed submissions, several in flight, while the clock  *)
(* advances and the sweep runs.                                            *)
(***************************************************************************)
NextClock ==
    \/ \E r \in Requests : Start(r, WellFormed)
    \/ \E r \in Requests : ParseBody(r, WellFormed)
    \/ \E r \in Requests : VerifyReturn(r, WellFormed)
    \/ \E r \in Requests : UpstreamReturn(r, WellFormed)
    \/ Tick
    \/ Sweep

SpecClock == Quiet(Production) /\ [][NextClock]_vars

(***************************************************************************)
(* SpecLimiter: the limiter on its own, its two checks called directly.    *)
(***************************************************************************)
NextLimiter ==
    \/ CallCheckIp
    \/ CallCheckEmail
    \/ Tick
    \/ Sweep

SpecLimiter == Quiet(Production) /\ [][NextLimiter]_vars

(***************************************************************************)
(* SpecSpellings: the two checks called with differently spelled           *)
(* identifiers, within one hour (the clock stands).                        *)
(***************************************************************************)
NextSpellings ==
    \/ CallCheckIpSpelled
    \/ CallCheckEmailSpelled

SpecSpellings == Quiet(Production) /\ [][NextSpellings]_vars

(***************************************************************************)
(* SpecAddresses: submissions from two addresses, one at a time, within    *)
(* one hour (the clock stands).                                            *)
(***************************************************************************)
NextAddresses ==
    \/ \E r \in OneAtATime : Start(r, TwoAddresses)
    \/ \E r \in OneAtATime : ParseBody(r, TwoAddresses)
    \/ \E r \in OneAtATime : VerifyReturn(r, TwoAddresses)
    \/ \E r \in OneAtATime : UpstreamReturn(r, TwoAddresses)

SpecAddresses == Quiet(Production) /\ [][NextAddresses]_vars

(***************************************************************************)
(* SpecMarkup: one submission whose fields hold markup characters.         *)
(***************************************************************************)
NextMarkup ==
    \/ \E r \in OneAtATime : req[r].pc = "idle" /\ Start(r, Markup)
    \/ \E r \in OneAtATime : ParseBody(r, Markup)
    \/ \E r \in OneAtATime : VerifyReturn(r, Markup)
    \/ \E r \in OneAtATime : UpstreamReturn(r, Markup)

SpecMarkup == Quiet(Production) /\ [][NextMarkup]_vars

(***************************************************************************)
(* The claims.  What a claim says about requests, configurations and       *)
(* results is written here from its own words, apart from the operators    *)
(* of the handler.                                                         *)
(***************************************************************************)
Log == {checkLog[i] : i \in DOMAIN checkLog}

KeyIsIp(key) == Len(key) >= 3 /\ SubSeq(key, 1, 3) = <<"i", "p", ":">>

ClaimedMax(key) == IF KeyIsIp(key) THEN 5 ELSE 3

Finished(q) == q.pc = "done"

Has(seq, x) == \E i \in DOMAIN seq : seq[i] = x

NonEmptyString(v) == v.t = "string" /\ v.s # <<>>

BlankToken(v) == v.t # "string" \/ \A i \in DOMAIN v.s : v.s[i] = " "

NonProduction(e) == e.DEV = Bool(TRUE) \/ e.NODE_ENV = Development

UsableSecret(e) ==
    /\ e.RECAPTCHA_SECRET_KEY.t = "string"
    /\ e.RECAPTCHA_SECRET_KEY.s # <<>>
    /\ e.RECAPTCHA_SECRET_KEY # Placeholder

CaptchaSkipped(e) == NonProduction(e) /\ ~UsableSecret(e)

TokenConfigured(e) == e.STRAPI_API_TOKEN.t = "string" /\ e.STRAPI_API_TOKEN.s # <<>>

JudgedValid(result) ==
    /\ result.success = Bool(TRUE)
    /\ result.errorCodes \in {Undefined, Arr(<<>>)}

FieldMissing(v) == v.t = "undefined" \/ v = Str(<<>>)

\* the fixed order of the checks
CheckOrder(e) ==
    <<"config", "honeypot">>
    \o (IF CaptchaSkipped(e) THEN <<>> ELSE <<"captchaToken", "captchaVerify">>)
    \o <<"ipLimit", "emailRequired", "emailLimit", "required", "nameLength",
         "subjectLength", "messageLength", "emailFormat", "upstream">>

\* the check fails for the request, by the request's content and by what the
\* limiter and the two services answered
CheckFails(stage, q, e) ==
    CASE stage = "config" -> ~TokenConfigured(e)
      [] stage = "honeypot" ->
             NonEmptyString(q.body.website_url) \/ NonEmptyString(q.body.website)
      [] stage = "captchaToken" -> BlankToken(q.body.recaptchaToken)
      [] stage = "captchaVerify" -> ~JudgedValid(q.recaptchaResult)
      [] stage = "ipLimit" -> q.ipRateLimit.allowed = Bool(FALSE)
      [] stage = "emailRequired" ->
             q.body.email.t = "undefined"
             \/ (q.body.email.t = "string" /\ Trim(q.body.email.s) = <<>>)
      [] stage = "emailLimit" -> q.emailRateLimit.allowed = Bool(FALSE)
      [] stage = "required" ->
             FieldMissing(q.body.name) \/ FieldMissing(q.body.subject)
             \/ FieldMissing(q.body.message)
      [] stage = "nameLength" -> q.body.name.t = "string" /\ Len(q.body.name.s) > 100
      [] stage = "subjectLength" ->
             q.body.subject.t = "string" /\ Len(q.body.subject.s) > 200
      [] stage = "messageLength" ->
             q.body.message.t = "string"
             /\ (Len(q.body.message.s) < 10 \/ Len(q.body.message.s) > 2000)
      [] stage = "emailFormat" -> ~emailRegex(q.email.s)
      [] stage = "upstream" ->
             q.upstreamOutcome = "network_error"
             \/ q.upstreamStatus < 200 \/ q.upstreamStatus > 299

CheckStatus(stage) ==
    CASE stage \in {"config", "upstream"} -> 500
      [] stage \in {"ipLimit", "emailLimit"} -> 429
      [] OTHER -> 400

CheckMessages(stage) ==
    CASE stage = "config" -> {"Server configuration error"}
      [] stage = "honeypot" -> {"Submission rejected"}
      [] stage = "captchaToken" -> {"reCAPTCHA verification required"}
      [] stage = "captchaVerify" -> {"reCAPTCHA verification failed"}
      [] stage = "ipLimit" -> {"Too many requests"}
      [] stage = "emailRequired" -> {"Email is required"}
      [] stage = "emailLimit" -> {"Too many submissions from this email"}
      [] stage = "required" -> {"All fields are required"}
      [] stage = "nameLength" -> {"Name is too long (max 100 characters)"}
      [] stage = "subjectLength" -> {"Subject is too long (max 200 characters)"}
      [] stage = "messageLength" -> {"Message must be between 10 and 2000 characters"}
      [] stage = "emailFormat" -> {"Invalid email format"}
      [] stage = "upstream" -> {"Failed to submit message", "Internal server error"}

\* C1: within one active window of a key the N-th check is allowed iff
\* N <= the maximum (5 for ip: keys, 3 for email: keys), and every denied
\* check answers remaining = 0 and resetAt = windowStart + windowDuration.
C1_NthCheckAllowedIffWithinMax ==
    \A c \in Log :
        /\ c.allowed <=> c.nth <= ClaimedMax(c.key)
        /\ ~c.allowed => c.remaining = 0 /\ c.resetAt = c.windowStart + WINDOW_MS

\* a sixth check of an IP is denied in a window that began after time 0
C1_Witness ==
    \E c \in Log : KeyIsIp(c.key) /\ c.nth = 6 /\ ~c.allowed /\ c.windowStart > 0

\* C2: the checks are evaluated in the fixed order, each one only when every
\* earlier one passed, and the response is the outcome of the first failing
\* one (the success when none fails); a run that throws is answered 500.
C2_FirstFailingCheckDecides ==
    \A r \in Requests :
        LET q == req[r]
            ev == q.evaluated
            n == Len(ev)
        IN  /\ n <= Len(CheckOrder(env)) /\ ev = SubSeq(CheckOrder(env), 1, n)
            /\ \A i \in 1..n - 1 : ~CheckFails(ev[i], q, env)
            /\ ~Finished(q) /\ n > 0 => ~CheckFails(ev[n], q, env)
            /\ Finished(q) /\ ~q.threw =>
                   IF CheckFails(ev[n], q, env)
                   THEN /\ q.resp.status = CheckStatus(ev[n])
                        /\ q.resp.error \in CheckMessages(ev[n])
                   ELSE n = Len(CheckOrder(env)) /\ q.resp.status = 200
            /\ Finished(q) /\ q.threw =>
                   /\ q.resp.status = 500
                   /\ CheckFails(ev[n], q, env) => ev[n] = "upstream"

\* a request over the IP limit is answered 429 with its email and its fields
\* never looked at
C2_Witness ==
    \E r \in Requests :
        /\ Finished(req[r]) /\ req[r].resp.status = 429
        /\ req[r].resp.error = "Too many requests"
        /\ req[r].body.email = Unread /\ req[r].body.name = Unread

\* C3: the content store is called at most once per request, and only for a
\* request that passed the honeypot, the CAPTCHA stage (when required), both
\* rate limits and the field validation; the verification is not retried.
C3_UpstreamOnlyAfterAllChecks ==
    \A r \in Requests :
        LET q == req[r] IN
        /\ q.fetchCalls <= 1
        /\ q.verifyCalls <= 1
        /\ q.fetchCalls = 1 =>
               /\ \A s \in {"honeypot", "ipLimit", "emailRequired", "emailLimit",
                            "required", "nameLength", "subjectLength",
                            "messageLength", "emailFormat"} :
                      Has(q.evaluated, s) /\ ~CheckFails(s, q, env)
               /\ ~CaptchaSkipped(env) =>
                      q.verifyCalls = 1 /\ JudgedValid(q.recaptchaResult)
        /\ Finished(q) /\ q.resp.status # 200 /\ q.upstreamOutcome = "none" =>
               q.fetchCalls = 0

\* the content store has been called for a request and has failed
C3_Witness ==
    \E r \in Requests :
        /\ Finished(req[r]) /\ req[r].fetchCalls = 1
        /\ req[r].resp.error = "Failed to submit message"

\* C4: a request with a non-empty honeypot field is rejected with 400
\* "Submission rejected" in the step that reads its body, and that step
\* makes no verification call and no rate-limit check and leaves the store
\* as it was.
C4_HoneypotBeforeCaptchaAndLimits ==
    [][\A r \in Requests :
           (/\ req[r].pc = "json"
            /\ req'[r].parsed
            /\ \/ NonEmptyString(req'[r].body.website_url)
               \/ NonEmptyString(req'[r].body.website))
           => /\ req'[r].pc = "done"
              /\ req'[r].resp = ErrorResponse(400, "Submission rejected")
              /\ req'[r].verifyCalls = 0
              /\ req'[r].ipRateLimit = NoLimit /\ req'[r].emailRateLimit = NoLimit
              /\ checkLog' = <<>>
              /\ rateLimitStore' = rateLimitStore]_vars

\* a request tripped the second decoy field while the store held entries
C4_Witness ==
    \E r \in Requests :
        /\ Finished(req[r])
        /\ req[r].body.website_url = Undefined
        /\ NonEmptyString(req[r].body.website)
        /\ rateLimitStore # EmptyMap

\* C5: a request that reaches the rate-limit stage or the content store has
\* made no verification call when the process runs in non-production mode
\* with no usable secret, and in every other configuration has made one
\* whose result was judged valid.
C5_CaptchaSkippedOnlyInDevWithoutSecret ==
    \A r \in Requests :
        LET q == req[r] IN
        Has(q.evaluated, "ipLimit") \/ q.fetchCalls > 0 =>
            IF CaptchaSkipped(env)
            THEN q.verifyCalls = 0 /\ q.body.recaptchaToken = Unread
            ELSE q.verifyCalls = 1 /\ JudgedValid(q.recaptchaResult)

\* in production with no secret configured a request reached the rate limit
\* after a verification, and in development with the placeholder secret one
\* reached it without
C5_Witness ==
    \E r \in Requests :
        /\ Has(req[r].evaluated, "ipLimit")
        /\ \/ ~NonProduction(env) /\ env.RECAPTCHA_SECRET_KEY = Undefined
           \/ NonProduction(env) /\ env.RECAPTCHA_SECRET_KEY = Placeholder

\* C6: when the handler reads the token of a request (the CAPTCHA being
\* required) and it is absent, no string, empty or whitespace-only, that
\* step rejects with 400 "reCAPTCHA verification required", makes no
\* verification call and leaves the rate-limit store as it was.
C6_BlankTokenRejectedBeforeVerify ==
    [][\A r \in Requests :
           (/\ req[r].pc = "json"
            /\ req'[r].body.recaptchaToken # Unread
            /\ BlankToken(req'[r].body.recaptchaToken))
           => /\ req'[r].pc = "done"
              /\ req'[r].resp = ErrorResponse(400, "reCAPTCHA verification required")
              /\ req'[r].verifyCalls = 0
              /\ req'[r].ipRateLimit = NoLimit /\ req'[r].emailRateLimit = NoLimit
              /\ checkLog' = <<>>
              /\ rateLimitStore' = rateLimitStore]_vars

\* a whitespace-only token was rejected while the store held entries
C6_Witness ==
    \E r \in Requests :
        /\ Finished(req[r])
        /\ req[r].body.recaptchaToken = Str(<<" ">>)
        /\ req[r].verifyCalls = 0
        /\ rateLimitStore # EmptyMap

\* C7: a request whose verification was not judged valid (success true and
\* no error codes) goes no further and is answered 400 "reCAPTCHA
\* verification failed"; a network or parse failure of the verification is
\* the result {success: false, errorCodes: ["verification_error"]} and not
\* an exception.
C7_CaptchaFailsClosed ==
    \A r \in Requests :
        LET q == req[r] IN
        /\ q.verifyOutcome \in {"network_error", "not_json", "null"} =>
               q.recaptchaResult = VerificationError
        /\ q.verifyOutcome # "none" /\ ~JudgedValid(q.recaptchaResult) =>
               /\ Finished(q) /\ ~q.threw
               /\ q.resp = ErrorResponse(400, "reCAPTCHA verification failed")
               /\ ~Has(q.evaluated, "ipLimit") /\ q.fetchCalls = 0
        /\ ~CaptchaSkipped(env) /\ Has(q.evaluated, "ipLimit") =>
               JudgedValid(q.recaptchaResult)

\* a verification answered success with error codes, or failed on the network
C7_Witness ==
    \E r \in Requests :
        /\ Finished(req[r])
        /\ \/ /\ req[r].recaptchaResult.success = Bool(TRUE)
              /\ req[r].recaptchaResult.errorCodes = Arr(<<"timeout-or-duplicate">>)
           \/ req[r].verifyOutcome = "network_error"

\* C8: with no upstream token configured every request is answered 500
\* "Server configuration error" with its body unread, no verification call,
\* no rate-limit check, no call of the content store and the store empty.
C8_MissingTokenFailsBeforeInspection ==
    ~TokenConfigured(env) =>
        /\ rateLimitStore = EmptyMap /\ checkLog = <<>>
        /\ \A r \in Requests :
               LET q == req[r] IN
               q.pc # "idle" =>
                   /\ Finished(q)
                   /\ q.resp = ErrorResponse(500, "Server configuration error")
                   /\ ~q.parsed /\ q.body = UnreadBody
                   /\ q.verifyCalls = 0 /\ q.fetchCalls = 0
                   /\ q.ipRateLimit = NoLimit /\ q.emailRateLimit = NoLimit

\* a request was answered under an empty token
C8_Witness ==
    /\ env.STRAPI_API_TOKEN = Str(<<>>)
    /\ \E r \in Requests : Finished(req[r])

\* C9: a check of a key whose window has elapsed is allowed and leaves the
\* entry with count 1 and windowStart = now, whatever the count was.
C9_ExpiredWindowResetsToOne ==
    \A c \in Log :
        c.elapsed \/ (c.before # NoEntry /\ c.at - c.before.firstRequestAt > WINDOW_MS)
            => c.allowed /\ c.after = Entry(1, c.at) /\ c.remaining = c.max - 1

\* a key at its maximum is checked after its window elapsed
C9_Witness ==
    \E c \in Log : c.elapsed /\ c.before.count = ClaimedMax(c.key)

\* C10: every response that rejects for rate limiting has status 429, a
\* retryAfter > 0 and a Retry-After header that denotes the same seconds.
C10_RetryAfterPositive ==
    \A r \in Requests :
        LET q == req[r] IN
        Finished(q)
        /\ (q.ipRateLimit.allowed = Bool(FALSE) \/ q.emailRateLimit.allowed = Bool(FALSE))
            => /\ q.resp.status = 429
               /\ q.resp.retryAfter.t = "number" /\ q.resp.retryAfter.n > 0
               /\ q.resp.RetryAfter.t = "string"
               /\ HeaderSeconds(q.resp.RetryAfter.s) = q.resp.retryAfter.n

\* a request whose payload has been handed to fetch
Forwarded(q) == q.fetchCalls > 0

\* the string a forwarded field was encoded from: the field of the body, trimmed
BeforeEncoding(v) == Trim(v.s)

\* C11: every payload forwarded to the content store carries a name, subject
\* and message that before entity-encoding (after trimming) are non-empty,
\* with name <= 100, subject <= 200 and message 10..2000 characters, and an
\* email that matches the format rule.
C11_ForwardedPayloadValid ==
    \A r \in Requests :
        LET q == req[r]
            name == BeforeEncoding(q.body.name)
            subject == BeforeEncoding(q.body.subject)
            message == BeforeEncoding(q.body.message)
        IN  Forwarded(q) =>
                /\ q.sanitizedData.name = sanitizeInput(name)
                /\ q.sanitizedData.subject = sanitizeInput(subject)
                /\ q.sanitizedData.message = sanitizeInput(message)
                /\ Len(name) >= 1 /\ Len(name) <= 100
                /\ Len(subject) >= 1 /\ Len(subject) <= 200
                /\ Len(message) >= 10 /\ Len(message) <= 2000
                /\ emailRegex(q.sanitizedData.email)

\* the position after the first colon of an identifier
AfterPrefix(id) == 1 + CHOOSE i \in 1..Len(id) : id[i] = ":" /\ \A j \in 1..i - 1 : id[j] # ":"

\* the entry a check is counted against when identifiers are compared without
\* regard to letter case and to leading and trailing whitespace
ClaimedKey(id) ==
    SubSeq(id, 1, AfterPrefix(id) - 1)
    \o Trim(ToLowerCase(SubSeq(id, AfterPrefix(id), Len(id))))

\* C12: a check is counted against the entry of its identifier lower-cased
\* and trimmed of leading and trailing whitespace, so two checks whose
\* identifiers differ only in these are counted against the same entry.
C12_SpellingsShareOneEntry ==
    \A c \in Log :
        /\ c.key = ClaimedKey(c.identifier)
        /\ ClaimedKey(c.identifier) \in DOMAIN rateLimitStore
        /\ rateLimitStore[ClaimedKey(c.identifier)] = c.after

KeyIsEmail(key) ==
    Len(key) >= 6 /\ SubSeq(key, 1, 6) = <<"e", "m", "a", "i", "l", ":">>

\* C13: a check of the IP policy touches an ip: entry and no other entry, a
\* check of the email policy an email: entry and no other, also when the IP
\* and the email are the same string; and a submission whose email has been
\* checked three times before in the window is answered 429 for its email
\* whenever its address is let through.
C13_PoliciesIndependent ==
    /\ \A c \in Log :
           /\ c.others
           /\ c.max = MAX_REQUESTS_PER_IP => KeyIsIp(c.key) /\ ~KeyIsEmail(c.key)
           /\ c.max = MAX_REQUESTS_PER_EMAIL => KeyIsEmail(c.key) /\ ~KeyIsIp(c.key)
    /\ \A c \in Log, r \in Requests :
           c.max = MAX_REQUESTS_PER_EMAIL /\ c.nth > 3 /\ req[r].emailRateLimit # NoLimit
               => /\ Finished(req[r])
                  /\ req[r].resp.status = 429
                  /\ req[r].resp.error = "Too many submissions from this email"
                  /\ req[r].fetchCalls = 0

\* the email "a" is rejected on its fourth submission, which is the first
\* from address "b", while the entry of address "a" holds three
C13_Witness ==
    /\ \E c \in Log : c.key = <<"e", "m", "a", "i", "l", ":", "a">> /\ c.nth = 4 /\ ~c.allowed
    /\ \E c \in Log : c.key = <<"i", "p", ":", "b">> /\ c.nth = 1 /\ c.allowed
    /\ <<"i", "p", ":", "a">> \in DOMAIN rateLimitStore
    /\ rateLimitStore[<<"i", "p", ":", "a">>].count = 3
    /\ \E r \in Requests : req[r].resp.status = 429

UpstreamFailed(q) ==
    q.upstreamOutcome = "response" /\ (q.upstreamStatus < 200 \/ q.upstreamStatus > 299)

\* C14: a request whose forwarded submission the content store answered with
\* a non-success status is answered 500 "Failed to submit message" with the
\* body of that answer as details (an empty object when the body is no JSON)
\* after one call of the store, and no request is answered 200 unless its one
\* call of the store returned a success status.
C14_UpstreamFailureSurfaced ==
    \A r \in Requests :
        LET q == req[r] IN
        /\ UpstreamFailed(q) =>
               /\ Finished(q) /\ ~q.threw
               /\ q.resp.status = 500
               /\ q.resp.error = "Failed to submit message"
               /\ q.resp.details =
                      IF q.upstreamJson THEN UpstreamBody(q.upstreamStatus)
                      ELSE EmptyObject
               /\ q.fetchCalls = 1
        /\ q.resp.status = 200 =>
               /\ q.fetchCalls = 1
               /\ q.upstreamOutcome = "response"
               /\ q.upstreamStatus >= 200 /\ q.upstreamStatus <= 299

\* the content store answered 503 with a body that is no JSON
C14_Witness ==
    \E r \in Requests :
        /\ Finished(req[r])
        /\ req[r].upstreamStatus = 503 /\ ~req[r].upstreamJson
        /\ req[r].resp.details = EmptyObject

Guarded == {"&", "<", ">", "\"", "'"}

Entities ==
    {<<"&", "a", "m", "p", ";">>, <<"&", "l", "t", ";">>, <<"&", "g", "t", ";">>,
     <<"&", "q", "u", "o", "t", ";">>, <<"&", "#", "0", "3", "9", ";">>}

StartsWith(s, i, e) == i + Len(e) - 1 <= Len(s) /\ SubSeq(s, i, i + Len(e) - 1) = e

NoRawMarkup(s) == \A i \in DOMAIN s : s[i] \notin {"<", ">", "\"", "'"}

AmpersandsBeginEntities(s) ==
    \A i \in DOMAIN s : s[i] = "&" => \E e \in Entities : StartsWith(s, i, e)

NoGuarded(s) == \A i \in DOMAIN s : s[i] \notin Guarded

EncodedFrom(out, in) ==
    /\ NoRawMarkup(out)
    /\ AmpersandsBeginEntities(out)
    /\ NoGuarded(in) => out = in

\* C15: in every forwarded submission the name, subject and message hold
\* none of < > " ' and every & in them begins one of the five entities, a
\* field without the five characters is forwarded as it was (trimmed), and
\* the email is forwarded lower-cased and trimmed but not encoded.
C15_ForwardedFieldsEncoded ==
    \A r \in Requests :
        LET q == req[r] IN
        Forwarded(q) =>
            /\ EncodedFrom(q.sanitizedData.name, BeforeEncoding(q.body.name))
            /\ EncodedFrom(q.sanitizedData.subject, BeforeEncoding(q.body.subject))
            /\ EncodedFrom(q.sanitizedData.message, BeforeEncoding(q.body.message))
            /\ q.sanitizedData.email = Trim(ToLowerCase(q.body.email.s))

\* a name with three of the characters and an email with two were forwarded
C15_Witness ==
    \E r \in Requests :
        /\ Forwarded(req[r])
        /\ req[r].body.name = Str(<<"<", "&", "'">>)
        /\ req[r].sanitizedData.name =
               <<"&", "l", "t", ";", "&", "a", "m", "p", ";", "&", "#", "0", "3", "9", ";">>
        /\ req[r].sanitizedData.email = <<"a", "'", "&", "@", "b", ".", "c">>

EntityOf(c) ==
    CASE c = "&" -> <<"&", "a", "m", "p", ";">>
      [] c = "<" -> <<"&", "l", "t", ";">>
      [] c = ">" -> <<"&", "g", "t", ";">>
      [] c = "\"" -> <<"&", "q", "u", "o", "t", ";">>
      [] c = "'" -> <<"&", "#", "0", "3", "9", ";">>

\* reading an encoded string back: every entity becomes its character
RECURSIVE Decode(_)
Decode(s) ==
    IF s = <<>> THEN <<>>
    ELSE IF \E c \in Guarded : StartsWith(s, 1, EntityOf(c))
    THEN LET c == CHOOSE g \in Guarded : StartsWith(s, 1, EntityOf(g))
         IN  <<c>> \o Decode(SubSeq(s, Len(EntityOf(c)) + 1, Len(s)))
    ELSE <<Head(s)>> \o Decode(Tail(s))

\* C16: sanitizeInput loses nothing: the string it was given is read back
\* from the string it returned, so two different strings are never encoded
\* to the same one.
C16_SanitizeInputInjective ==
    \A r \in Requests :
        LET q == req[r]
            name == BeforeEncoding(q.body.name)
            subject == BeforeEncoding(q.body.subject)
            message == BeforeEncoding(q.body.message)
        IN  Forwarded(q) =>
                /\ Decode(q.sanitizedData.name) = name
                /\ Decode(q.sanitizedData.subject) = subject
                /\ Decode(q.sanitizedData.message) = message
                /\ name # subject => q.sanitizedData.name # q.sanitizedData.subject
                /\ name # message => q.sanitizedData.name # q.sanitizedData.message

\* the text of an entity was itself encoded
C16_Witness ==
    \E r \in Requests :
        /\ Forwarded(req[r])
        /\ req[r].body.name = Str(<<"&", "l", "t", ";">>)
        /\ req[r].sanitizedData.name = <<"&", "a", "m", "p", ";", "l", "t", ";">>

\* the body could not be read as an object
Unparseable(q) == Finished(q) /\ ~q.parsed /\ TokenConfigured(env)

\* a field that is no string is used as one
WrongType(q) ==
    \/ q.body.email.t = "number"
    \/ /\ Has(q.evaluated, "emailFormat")
       /\ ~CheckFails("emailFormat", q, env)
       /\ \E v \in {q.body.name, q.body.subject, q.body.message} : v.t = "number"

\* the call of the content store failed on the network, or its success
\* answer could not be read
UpstreamBroke(q) ==
    \/ q.upstreamOutcome = "network_error"
    \/ q.upstreamOutcome = "response" /\ ~UpstreamFailed(q) /\ ~q.upstreamJson

\* C17: every response other than the 200 carries an error message, only
\* the answer to a failure of the content store carries details, and a
\* request that ran into an unparseable body, a field of the wrong type or a
\* broken call of the content store is answered 500 "Internal server error"
\* without details.
C17_ErrorsAreStructured ==
    \A r \in Requests :
        LET q == req[r] IN
        Finished(q) =>
            /\ q.resp.status # 200 => q.resp.error # "" /\ ~q.resp.success
            /\ q.resp.details # Undefined =>
                   UpstreamFailed(q) /\ q.resp.error = "Failed to submit message"
            /\ Unparseable(q) \/ WrongType(q) \/ UpstreamBroke(q) =>
                   q.resp = ErrorResponse(500, "Internal server error")
            /\ q.threw => Unparseable(q) \/ WrongType(q) \/ UpstreamBroke(q)

\* a request whose email is a number was answered after its address had
\* been counted
C17_Witness ==
    \E r \in Requests :
        /\ Finished(req[r])
        /\ req[r].body.email = Num(5)
        /\ req[r].ipRateLimit.allowed = Bool(TRUE)
        /\ req[r].resp.status = 500

InFlight(q) == q.pc \in {"json", "verify", "fetch"}

\* C18: with several requests in flight, every allowed check has seen the
\* count left by every earlier check of its key in the window (the count it
\* leaves is its position among them), so the allowed checks of a key in one
\* window never exceed the maximum.
C18_CheckAndIncrementAtomic ==
    \A c \in Log :
        c.allowed =>
            /\ c.nth <= ClaimedMax(c.key)
            /\ c.after.count = c.nth
            /\ c.before.count = c.nth - 1 \/ c.nth = 1

\* while one request that took the last slot of an email is still waiting
\* for the content store, another one is denied
C18_Witness ==
    \E r1, r2 \in Requests :
        /\ r1 # r2
        /\ req[r1].pc = "fetch"
        /\ req[r1].emailRateLimit.allowed = Bool(TRUE)
        /\ req[r1].emailRateLimit.remaining = 0
        /\ Finished(req[r2])
        /\ req[r2].emailRateLimit.allowed = Bool(FALSE)
        /\ \E c \in Log : KeyIsEmail(c.key) /\ ~c.allowed /\ c.nth = 4

Result(res) == <<res.allowed, res.remaining, res.resetAt>>

\* the checks of a log, from line i on, give on store u the results the log
\* holds
RECURSIVE SameResults(_, _, _)
SameResults(u, lg, i) ==
    \/ i > Len(lg)
    \/ LET res == checkRateLimit(u, lg[i].at, lg[i].identifier, lg[i].max)
       IN  Result(res) = Result(lg[i]) /\ SameResults(res.store, lg, i + 1)

\* the entries of a store whose window has not fully expired at time t
Active(st, t) ==
    [k \in {j \in DOMAIN st : ~(t - st[j].firstRequestAt > WINDOW_MS)} |-> st[k]]

\* C19: a sweep leaves exactly the entries with now - windowStart <=
\* windowDuration, and every check answers (allowed, remaining, resetAt) as
\* it would have answered had no sweep ever run.
C19_SweepUnobservable ==
    [][/\ SameResults(unswept, checkLog', 1)
       /\ rateLimitStore' # rateLimitStore /\ checkLog' = <<>> =>
              rateLimitStore' = Active(rateLimitStore, now)
       /\ \A k \in DOMAIN rateLimitStore' :
              k \in DOMAIN unswept' /\ rateLimitStore'[k] = unswept'[k]]_vars

\* a key was checked again after the sweep had deleted its entry
C19_Witness ==
    \E c \in Log :
        /\ c.elapsed /\ c.before = NoEntry /\ c.allowed
        /\ c.key \in DOMAIN unswept /\ unswept[c.key] = Entry(1, c.at)

\* the allowed checks of a key in the hour that begins at time t
AllowedInHourFrom(seq, t) ==
    Cardinality({i \in DOMAIN seq : t <= seq[i] /\ seq[i] < t + WINDOW_MS})

\* C20: in any interval of one hour at most 5 checks of an IP and at most 3
\* checks of an email are allowed.
C20_AtMostMaxInAnyHour ==
    \A k \in DOMAIN allowedAt :
        \A i \in DOMAIN allowedAt[k] :
            AllowedInHourFrom(allowedAt[k], allowedAt[k][i]) <= ClaimedMax(k)

(***************************************************************************)
(* SpecLive: several requests in flight, the two services answering or     *)
(* failing, within one hour.  A stretch of the handler that can run does   *)
(* run: the body is read, and every call of a service returns or fails.    *)
(***************************************************************************)
\* submissions that read or do not, and services that answer or fail
Answering ==
    [WellFormed EXCEPT
        !.bodyKinds = {"not_json", "object"},
        !.verifyOutcomes =
            {[kind |-> "network_error"],
             [kind |-> "json", success |-> Bool(TRUE), errorCodes |-> Undefined]},
        !.upstreamOutcomes = UpstreamOutcomes]

\* a new request is taken while every request in flight can still be counted
Admitted ==
    ChecksSoFar(window, RateLimitKey(IpIdentifier(<<"a">>)), now)
        + Cardinality({r \in Requests : InFlight(req[r])}) < MaxChecks

NextLive ==
    \/ \E r \in Requests : Admitted /\ Start(r, Answering)
    \/ \E r \in Requests : ParseBody(r, Answering)
    \/ \E r \in Requests : VerifyReturn(r, Answering)
    \/ \E r \in Requests : UpstreamReturn(r, Answering)

Scheduling ==
    \A r \in Requests :
        /\ WF_vars(ParseBody(r, Answering))
        /\ WF_vars(VerifyReturn(r, Answering))
        /\ WF_vars(UpstreamReturn(r, Answering))

SpecLive == Quiet(Production) /\ [][NextLive]_vars /\ Scheduling

\* the next stretch of a request in flight can run, whatever the others do
CanProceed(r) ==
    CASE req[r].pc = "json" -> ENABLED ParseBody(r, Answering)
      [] req[r].pc = "verify" -> ENABLED VerifyReturn(r, Answering)
      [] req[r].pc = "fetch" -> ENABLED UpstreamReturn(r, Answering)
      [] OTHER -> TRUE

\* C21: every request in flight eventually ends, with a response; a request
\* has a response exactly when it has ended, and the response stays as it is;
\* a request in flight never has to wait for another one.
C21_EveryRequestEnds ==
    /\ \A r \in Requests : InFlight(req[r]) ~> Finished(req[r])
    /\ [](\A r \in Requests :
              /\ Finished(req[r]) <=> req[r].resp # NoResponse
              /\ CanProceed(r))
    /\ [][\A r \in Requests :
              Finished(req[r]) /\ Finished(req'[r]) /\ req'[r] # req[r]
                  => req'[r].evaluated = <<"config">>]_vars

\* one request has been answered 200 while another is still waiting for the
\* CAPTCHA service
C21_Witness ==
    \E r1, r2 \in Requests :
        /\ r1 # r2
        /\ Finished(req[r1]) /\ req[r1].resp.status = 200
        /\ req[r2].pc = "verify"

\* C22: the store holds one entry per normalized key, every entry has
\* 1 <= count <= the maximum of its namespace, a denied check leaves the
\* store as it was, and every check answers 0 <= remaining = maximum - count
\* with the count it leaves.
C22_StoreWellFormed ==
    /\ \A k \in DOMAIN rateLimitStore :
           /\ KeyIsIp(k) \/ KeyIsEmail(k)
           /\ rateLimitStore[k].count >= 1
           /\ rateLimitStore[k].count <= ClaimedMax(k)
    /\ \A k1, k2 \in DOMAIN rateLimitStore :
           Trim(ToLowerCase(k1)) = Trim(ToLowerCase(k2)) => k1 = k2
    /\ \A c \in Log :
           /\ ~c.allowed => c.after = c.before /\ c.others
           /\ c.remaining >= 0
           /\ c.remaining = ClaimedMax(c.key) - c.after.count

\* an address at its maximum has just been denied while an email is at its
\* maximum too
C22_Witness ==
    /\ \E c \in Log : KeyIsIp(c.key) /\ ~c.allowed /\ c.after.count = 5
    /\ \E k \in DOMAIN rateLimitStore : KeyIsEmail(k) /\ rateLimitStore[k].count = 3

(***************************************************************************)
(* SpecOutcomes: submissions that the limits let through and that are      *)
(* rejected or fail afterwards, one at a time, while the clock advances    *)
(* and the sweep runs.                                                     *)
(***************************************************************************)
Rejectable ==
    [WellFormed EXCEPT
        !.emails = {Undefined, ValidEmail},
        !.names = {Str(Rep("n", 100)), Str(Rep("n", 101))},
        !.upstreamOutcomes =
            {[kind |-> "response", status |-> 200, json |-> TRUE],
             [kind |-> "response", status |-> 503, json |-> TRUE]}]

NextOutcomes ==
    \/ \E r \in OneAtATime : Start(r, Rejectable)
    \/ \E r \in OneAtATime : ParseBody(r, Rejectable)
    \/ \E r \in OneAtATime : VerifyReturn(r, Rejectable)
    \/ \E r \in OneAtATime : UpstreamReturn(r, Rejectable)
    \/ Tick
    \/ Sweep

SpecOutcomes == Quiet(Production) /\ [][NextOutcomes]_vars

\* the count of a key at time t; an entry whose window has fully expired is
\* logically absent
CountOf(st, k, t) ==
    IF k \in DOMAIN st /\ ~(t - st[k].firstRequestAt > WINDOW_MS) THEN st[k].count ELSE 0

\* C23: a step in which a check allows a request leaves the count of the
\* key one higher, whatever becomes of the request in that step or later; a
\* step of a request without a check leaves every count as it was; and
\* while the clock stands no step lowers a count.
C23_SlotConsumedByCheck ==
    [][/\ \A c \in {checkLog'[i] : i \in DOMAIN checkLog'} :
              c.allowed =>
                  CountOf(rateLimitStore', c.key, now')
                      = CountOf(rateLimitStore, c.key, now) + 1
       /\ now' = now =>
              \A k \in DOMAIN rateLimitStore \cup DOMAIN rateLimitStore' :
                  /\ CountOf(rateLimitStore', k, now') >= CountOf(rateLimitStore, k, now)
                  /\ checkLog' = <<>> =>
                         CountOf(rateLimitStore', k, now') = CountOf(rateLimitStore, k, now)]_vars

\* a request that both limits had let through as the second of its address
\* and of its email, in a window opened after an earlier one had expired,
\* was rejected for the length of its name
C23_Witness ==
    \E r \in Requests :
        /\ Finished(req[r])
        /\ req[r].resp.error = "Name is too long (max 100 characters)"
        /\ \E c \in Log :
               /\ KeyIsIp(c.key) /\ c.allowed /\ c.after = Entry(2, 3600001)
               /\ allowedAt[c.key][1] = 0
        /\ \E c \in Log : KeyIsEmail(c.key) /\ c.allowed /\ c.after.count = 2

====
